---- MODULE Spec2Model ----
(***************************************************************************)
(* Dropdown buttons (src/src/dropdown_button.js): the useDropdownButton    *)
(* hook, the Immediate and Selected components, and the page of            *)
(* src/src/App.js that mounts one of each.                                 *)
(*                                                                         *)
(* React's execution model, as far as the handlers depend on it:           *)
(*  - a component is re-rendered synchronously when one of its state       *)
(*    setters is called with a value different from the current one, and   *)
(*    not at all when the value is the same (bail-out);                    *)
(*  - every render runs the component function again, so the handlers the  *)
(*    DOM calls are the closures of the latest render: they read the       *)
(*    dropdownOpen and selection of that render and a fresh `timer`        *)
(*    variable (line 101), while a timeout callback keeps the `timer`      *)
(*    variable of the render that created it;                              *)
(*  - React's own click listener runs before the listeners the components  *)
(*    add to document in useEffect, so a React onClick handler runs first  *)
(*    and the document listeners run afterwards unless the native event's  *)
(*    immediate propagation was stopped.                                   *)
(***************************************************************************)
EXTENDS Integers, Sequences, FiniteSets, TLC

\* ------------------------------------------------------------------ bounds
\* Live timeouts (pending or outliving their instance) per widget slot.
MaxTimers == 2
\* trigger() calls counted by the nTriggers history variable.
MaxTriggers == 3

\* --------------------------------------------------------- the page's input
\* The two widgets of App, named by their DOM ids.
Widgets == {"immediate", "selected"}

Variant(w) == IF w = "immediate" THEN "Immediate" ELSE "Selected"

\* The `labels` prop of App's Selected.
labels == [item1 |-> "Item 1", item2 |-> "Item 2"]

\* What reading a missing property gives.
Undefined == "undefined"

\* The id property of a DOM element that has no id attribute.
NoId == ""

\* A child is an element with an id; its content is either text only (a click
\* inside it always has the element itself as target) or holds a nested
\* element without id (<button id="second"><b>Second</b></button>).
Child(id, nested) == [id |-> id, nested |-> nested]

\* The child lists a widget is mounted with.
ChildLists ==
    { << Child("item1", FALSE), Child("item2", TRUE) >>,
      << Child("item2", TRUE), Child("item1", FALSE) >> }

KeyCodes == {27, 13}

\* Where inside a menu item a click can land.
ClickParts(child) == IF child.nested THEN {"self", "nested"} ELSE {"self"}

\* e.target.id of a click that lands on `part` of `child`.
TargetId(child, part) == IF part = "self" THEN child.id ELSE NoId

\* ------------------------------------------------------------------- state
VARIABLES
    page,          \* SUBSET Widgets: the widgets the page's JSX contains
    mounted,       \* [Widgets -> BOOLEAN]
    children,      \* [Widgets -> Seq(child)]: the children prop
    dropdownOpen,  \* [Widgets -> BOOLEAN]: useState of line 100
    selection,     \* [Widgets -> id]: useState of line 242 (Selected)
    timer,         \* [Widgets -> 0..MaxTimers]: `timer` of the latest render, 0 = null
    pending,       \* [Widgets -> SUBSET 1..MaxTimers]: timeouts scheduled and not cleared
    stale,         \* [Widgets -> SUBSET 1..MaxTimers]: timeouts of an unmounted instance
    rendered,      \* [Widgets -> view]: output of the latest render
    listeners,     \* Seq(Widgets): closeDropdown listeners on document, in order
    missing,       \* [Widgets -> SUBSET props]: required props the page leaves out
    lastEvent,     \* history: the event dispatched last
    nTriggers,     \* history: trigger() calls since mount, -1 once another handler ran
    lastActivated  \* history: id of the item activated last (first child at mount)

vars == << page, mounted, children, dropdownOpen, selection, timer, pending, stale,
           rendered, listeners, missing, lastEvent, nTriggers, lastActivated >>

\* The program state as one record, which the handlers transform.
Cur ==
    [ mounted |-> mounted, children |-> children, dropdownOpen |-> dropdownOpen,
      selection |-> selection, timer |-> timer, pending |-> pending,
      stale |-> stale, rendered |-> rendered, listeners |-> listeners,
      missing |-> missing ]

Commit(S) ==
    /\ page' = page
    /\ mounted' = S.mounted
    /\ children' = S.children
    /\ dropdownOpen' = S.dropdownOpen
    /\ selection' = S.selection
    /\ timer' = S.timer
    /\ pending' = S.pending
    /\ stale' = S.stale
    /\ rendered' = S.rendered
    /\ listeners' = S.listeners
    /\ missing' = S.missing

\* ---------------------------------------------------------------- rendering
Label(id) == IF id \in DOMAIN labels THEN labels[id] ELSE Undefined

Unrendered ==
    [ dropdownOpen |-> FALSE, selection |-> Undefined, ariaExpanded |-> FALSE,
      glyph |-> "none", executeLabel |-> Undefined, listShown |-> FALSE,
      list |-> << >> ]

\* React.Children.map(children, child => <li>{React.cloneElement(child, ...)}</li>):
\* one <li> per child, in the children's order; onClick names the click handler
\* the clone carries.
wrappedChildren(kids, onClick) ==
    [ i \in 1..Len(kids) |-> [tag |-> "li", child |-> kids[i].id, onClick |-> onClick] ]

\* The element Immediate returns, with what its handlers close over.
Immediate(kids, open) ==
    [ dropdownOpen |-> open, selection |-> Undefined, ariaExpanded |-> open,
      glyph |-> "chevronDown", executeLabel |-> Undefined, listShown |-> open,
      list |-> IF open THEN wrappedChildren(kids, "own") ELSE << >> ]

\* Selected with aria-expanded written like aria-haspopup="true".
Selected_AriaTrue(kids, open, sel) ==
    [ dropdownOpen |-> open, selection |-> sel, ariaExpanded |-> TRUE,
      glyph |-> "chevronDown", executeLabel |-> Label(sel), listShown |-> open,
      list |-> IF open THEN wrappedChildren(kids, "handleItemClick") ELSE << >> ]

\* The element Selected returns, with what its handlers close over.
Selected(kids, open, sel) ==
    [ dropdownOpen |-> open, selection |-> sel, ariaExpanded |-> open,
      glyph |-> "chevronDown", executeLabel |-> Label(sel), listShown |-> open,
      list |-> IF open THEN wrappedChildren(kids, "handleItemClick") ELSE << >> ]

\* The id of the last child instead of the first.
FirstLabelId_Last(kids) == IF Len(kids) > 0 THEN kids[Len(kids)].id ELSE Undefined

\* labelIds[0] of line 242.
FirstLabelId(kids) == IF Len(kids) > 0 THEN kids[1].id ELSE Undefined

\* One render of widget w: the component function runs again, `timer` is a new
\* variable holding null, and the output replaces the previous one.
Render(S, w) ==
    [ S EXCEPT
        !.timer[w] = 0,
        !.rendered[w] =
            IF Variant(w) = "Immediate"
            THEN Immediate(S.children[w], S.dropdownOpen[w])
            ELSE Selected(S.children[w], S.dropdownOpen[w], S.selection[w]) ]

\* ------------------------------------------------------------ state setters
setDropdownOpen(S, w, v) ==
    IF ~S.mounted[w] \/ S.dropdownOpen[w] = v
    THEN S
    ELSE Render([S EXCEPT !.dropdownOpen[w] = v], w)

setSelection(S, w, v) ==
    IF ~S.mounted[w] \/ S.selection[w] = v
    THEN S
    ELSE Render([S EXCEPT !.selection[w] = v], w)

\* ----------------------------------------------------------------- handlers
\* The result of a React handler: the new state, whether it stopped the native
\* event's immediate propagation, and the calls it made to the caller's props.
Handled(S, stop, calls) == [S |-> S, stopImmediate |-> stop, calls |-> calls]

\* handleTrigger that opens instead of toggling.
handleTrigger_AlwaysOpens(S, w) ==
    Handled(setDropdownOpen(S, w, TRUE), TRUE, << >>)

\* handleTrigger without line 105.
handleTrigger_NoStop(S, w) ==
    Handled(setDropdownOpen(S, w, ~S.rendered[w].dropdownOpen), FALSE, << >>)

\* handleTrigger that also puts the selection back to the first item.
handleTrigger_ResetsSelection(S, w) ==
    LET S1 == setDropdownOpen(S, w, ~S.rendered[w].dropdownOpen)
    IN  Handled(IF Variant(w) = "Selected"
                THEN setSelection(S1, w, FirstLabelId(S1.children[w]))
                ELSE S1,
                TRUE, << >>)

\* handleTrigger that clears the widget's scheduled timeouts first.
handleTrigger_ClearsTimer(S, w) ==
    Handled(setDropdownOpen([S EXCEPT !.pending[w] = {}, !.timer[w] = 0], w,
                            ~S.rendered[w].dropdownOpen),
            TRUE, << >>)

handleTrigger(S, w) ==
    Handled(setDropdownOpen(S, w, ~S.rendered[w].dropdownOpen), TRUE, << >>)

\* closeDropdown that toggles, like handleTrigger.
closeDropdown_Toggles(S, w) == setDropdownOpen(S, w, ~S.dropdownOpen[w])

closeDropdown(S, w) == setDropdownOpen(S, w, FALSE)

\* handleKey that tests for the Enter key.
handleKey_Enter(S, w, keyCode) ==
    IF keyCode = 13 THEN setDropdownOpen(S, w, FALSE) ELSE S

\* handleKey without the test of the key code.
handleKey_AnyKey(S, w, keyCode) == closeDropdown(S, w)

handleKey(S, w, keyCode) == IF keyCode = 27 THEN closeDropdown(S, w) ELSE S

handleMouseEnter(S, w) ==
    IF S.timer[w] # 0
    THEN [S EXCEPT !.pending[w] = @ \ {S.timer[w]}, !.timer[w] = 0]
    ELSE S

\* The id setTimeout returns: one no live timeout of the slot has.
FreeTimers(S, w) == (1..MaxTimers) \ (S.pending[w] \cup S.stale[w])

handleMouseLeave(S, w, t) ==
    [S EXCEPT !.pending[w] = (@ \ {S.timer[w]}) \cup {t}, !.timer[w] = t]

\* The callback without its setDropdownOpen(false).
timerCallback_NoClose(S, w, t) ==
    [S EXCEPT !.pending[w] = @ \ {t}, !.timer[w] = IF @ = t THEN 0 ELSE @]

\* The callback of lines 136-139, for timeout t of widget w.
timerCallback(S, w, t) ==
    LET S1 == [S EXCEPT !.pending[w] = @ \ {t},
                        !.timer[w] = IF @ = t THEN 0 ELSE @]
    IN  setDropdownOpen(S1, w, FALSE)

\* handleItemClick that keeps the click from the document.
handleItemClick_Stops(S, w, targetId) ==
    Handled(setSelection(S, w, targetId), TRUE, << >>)

handleItemClick(S, w, targetId) ==
    Handled(setSelection(S, w, targetId), FALSE, << >>)

\* handleExecute that keeps the click from the document.
handleExecute_Stops(S, w) ==
    Handled(S, TRUE, << [fn |-> "execute", arg |-> S.rendered[w].selection] >>)

\* Calling `execute` when the prop is undefined throws.
handleExecute(S, w) ==
    IF "execute" \in S.missing[w]
    THEN Handled(S, FALSE, << [fn |-> "throw", arg |-> "TypeError"] >>)
    ELSE Handled(S, FALSE, << [fn |-> "execute", arg |-> S.rendered[w].selection] >>)

\* A child's onClick that keeps the click from the document.
childOnClick_Stops(S, w, targetId) ==
    Handled(S, TRUE, << [fn |-> "onClick", arg |-> targetId] >>)

\* A child of Immediate keeps its own onClick (handleButtonClick of App).
childOnClick(S, w, targetId) ==
    Handled(S, FALSE, << [fn |-> "onClick", arg |-> targetId] >>)

\* The effect of lines 142-144, run once after the first render.
addListener(S, w) == [S EXCEPT !.listeners = Append(@, w)]

\* A cleanup that removes nothing (a listener other than the one added).
removeListener_None(S, w) == S

\* The effect's cleanup of lines 145-147: it removes the listener the effect
\* added, the closeDropdown of the same render.
removeListener(S, w) ==
    [S EXCEPT !.listeners = SelectSeq(@, LAMBDA x : x # w)]

\* closeDropdown stopping the click for the listeners after it
\* (stopImmediatePropagation in place of stopPropagation).
documentClick_StopsAtFirst(S, ls) ==
    IF ls = << >> THEN S ELSE setDropdownOpen(S, Head(ls), FALSE)

\* The document's click listeners, called in the order they were added.
RECURSIVE documentClick(_, _)
documentClick(S, ls) ==
    IF ls = << >> THEN S
    ELSE documentClick(closeDropdown(S, Head(ls)), Tail(ls))

\* A click handled by React handler result H, then by the document.
dispatchClick(H) ==
    IF H.stopImmediate THEN H.S ELSE documentClick(H.S, H.S.listeners)

\* -------------------------------------------------------- history variables
Event(op, w, keyCode, target, calls) ==
    [ op |-> op, w |-> w, keyCode |-> keyCode, target |-> target, t |-> 0,
      wasOpen |-> IF w \in Widgets THEN dropdownOpen[w] ELSE FALSE,
      calls |-> calls ]

\* nTriggers after an event that ran handleTrigger of the widgets in T and
\* some other handler of the widgets in O.
Counted(T, O) ==
    [ w \in Widgets |->
        IF w \in O THEN -1
        ELSE IF w \in T /\ nTriggers[w] >= 0
             THEN IF nTriggers[w] < MaxTriggers THEN nTriggers[w] + 1 ELSE -1
             ELSE nTriggers[w] ]

Range(s) == { s[i] : i \in 1..Len(s) }

\* ------------------------------------------------------------------ actions
\* The page before React has mounted anything on it.
InitPage(p) ==
    /\ page = p
    /\ mounted = [w \in Widgets |-> FALSE]
    /\ children = [w \in Widgets |-> << >>]
    /\ dropdownOpen = [w \in Widgets |-> FALSE]
    /\ selection = [w \in Widgets |-> Undefined]
    /\ timer = [w \in Widgets |-> 0]
    /\ pending = [w \in Widgets |-> {}]
    /\ stale = [w \in Widgets |-> {}]
    /\ rendered = [w \in Widgets |-> Unrendered]
    /\ listeners = << >>
    /\ missing = [w \in Widgets |-> {}]
    /\ lastEvent = [ op |-> "init", w |-> "none", keyCode |-> 0, target |-> NoId,
                     t |-> 0, wasOpen |-> FALSE, calls |-> << >> ]
    /\ nTriggers = [w \in Widgets |-> -1]
    /\ lastActivated = [w \in Widgets |-> Undefined]

\* A page that holds one widget, of either variant. (InitPage(Widgets) is the
\* page of App, with both.)
Init == \E w \in Widgets : InitPage({w})

\* First render of a new instance, then the effect of lines 142-148.
Mount(w, kids) ==
    /\ w \in page
    /\ ~mounted[w]
    /\ LET S0 == [Cur EXCEPT
                    !.mounted[w] = TRUE,
                    !.missing[w] = {},
                    !.children[w] = kids,
                    !.dropdownOpen[w] = FALSE,
                    !.selection[w] =
                        IF Variant(w) = "Selected" THEN FirstLabelId(kids)
                        ELSE Undefined]
           S1 == Render(S0, w)
       IN  Commit(addListener(S1, w))
    /\ lastEvent' = Event("mount", w, 0, NoId, << >>)
    /\ nTriggers' = [nTriggers EXCEPT ![w] = 0]
    /\ lastActivated' = [lastActivated EXCEPT ![w] = FirstLabelId(kids)]

\* The props marked isRequired (lines 208-223 and 300-315).
RequiredProps(w) ==
    IF Variant(w) = "Immediate"
    THEN {"label", "id", "children"}
    ELSE {"labels", "execute", "id", "triggerVoice", "children"}

\* PropTypes (development build): one console.error per required prop that is
\* missing, naming the prop; rendering goes on.
checkPropTypes(w, miss) ==
    IF miss \cap RequiredProps(w) = {} THEN << >>
    ELSE << [fn |-> "console.error", arg |-> "Failed prop type"] >>

\* Whether the first render throws: Selected reads labelIds[0] of the
\* undefined that React.Children.map gives for no children (line 242), and
\* labels[selection] of an undefined labels (line 270).
renderThrows(w, miss) ==
    Variant(w) = "Selected" /\ miss \cap {"children", "labels"} # {}

\* A widget is mounted without its required prop opt.
MountMisconfigured(w, kids, opt) ==
    /\ w \in page
    /\ ~mounted[w]
    /\ opt \in RequiredProps(w)
    /\ IF renderThrows(w, {opt})
       THEN /\ Commit([Cur EXCEPT !.missing[w] = {opt}])
            /\ lastEvent' = Event("mount", w, 0, NoId,
                    checkPropTypes(w, {opt}) \o << [fn |-> "throw", arg |-> "TypeError"] >>)
            /\ UNCHANGED << nTriggers, lastActivated >>
       ELSE LET given == IF opt = "children" THEN << >> ELSE kids
                S0 == [Cur EXCEPT
                         !.mounted[w] = TRUE,
                         !.missing[w] = {opt},
                         !.children[w] = given,
                         !.dropdownOpen[w] = FALSE,
                         !.selection[w] =
                             IF Variant(w) = "Selected" THEN FirstLabelId(given)
                             ELSE Undefined]
            IN  /\ Commit(addListener(Render(S0, w), w))
                /\ lastEvent' = Event("mount", w, 0, NoId, checkPropTypes(w, {opt}))
                /\ nTriggers' = [nTriggers EXCEPT ![w] = 0]
                /\ lastActivated' = [lastActivated EXCEPT ![w] = FirstLabelId(given)]

\* The instance is destroyed and the effect's cleanup removes its listener;
\* its scheduled timeouts are not cleared.
Unmount(w) ==
    /\ mounted[w]
    /\ Commit(removeListener(
                [Cur EXCEPT
                   !.mounted[w] = FALSE,
                   !.missing[w] = {},
                   !.children[w] = << >>,
                   !.dropdownOpen[w] = FALSE,
                   !.selection[w] = Undefined,
                   !.timer[w] = 0,
                   !.stale[w] = @ \cup pending[w],
                   !.pending[w] = {},
                   !.rendered[w] = Unrendered], w))
    /\ lastEvent' = Event("unmount", w, 0, NoId, << >>)
    /\ nTriggers' = [nTriggers EXCEPT ![w] = -1]
    /\ lastActivated' = [lastActivated EXCEPT ![w] = Undefined]

ClickTrigger(w) ==
    /\ mounted[w]
    /\ LET H == handleTrigger(Cur, w)
       IN  /\ Commit(dispatchClick(H))
           /\ lastEvent' = Event("trigger", w, 0, NoId, H.calls)
           /\ nTriggers' =
                Counted({w}, IF H.stopImmediate THEN {} ELSE Range(listeners))
    /\ UNCHANGED lastActivated

ClickExecute(w) ==
    /\ mounted[w]
    /\ Variant(w) = "Selected"
    /\ LET H == handleExecute(Cur, w)
       IN  /\ Commit(dispatchClick(H))
           /\ lastEvent' = Event("execute", w, 0, NoId, H.calls)
    /\ nTriggers' = Counted({}, Range(listeners) \cup {w})
    /\ UNCHANGED lastActivated

ClickItem(w, i, part) ==
    /\ mounted[w]
    /\ rendered[w].listShown
    /\ i \in 1..Len(children[w])
    /\ part \in ClickParts(children[w][i])
    /\ LET id == TargetId(children[w][i], part)
           H  == IF Variant(w) = "Selected"
                 THEN handleItemClick(Cur, w, id)
                 ELSE childOnClick(Cur, w, id)
       IN  /\ Commit(dispatchClick(H))
           /\ lastEvent' = Event("item", w, 0, id, H.calls)
    /\ nTriggers' = Counted({}, Range(listeners) \cup {w})
    /\ lastActivated' = [lastActivated EXCEPT ![w] = children[w][i].id]

\* A click on the page outside every widget.
ClickOutside ==
    /\ listeners # << >>
    /\ Commit(documentClick(Cur, listeners))
    /\ lastEvent' = Event("outside", "none", 0, NoId, << >>)
    /\ nTriggers' = Counted({}, Range(listeners))
    /\ UNCHANGED lastActivated

KeyUp(w, keyCode) ==
    /\ mounted[w]
    /\ Commit(handleKey(Cur, w, keyCode))
    /\ lastEvent' = Event("key", w, keyCode, NoId, << >>)
    /\ nTriggers' = Counted({}, {w})
    /\ UNCHANGED lastActivated

MouseEnter(w) ==
    /\ mounted[w]
    /\ Commit(handleMouseEnter(Cur, w))
    /\ lastEvent' = Event("mouseEnter", w, 0, NoId, << >>)
    /\ nTriggers' = Counted({}, {w})
    /\ UNCHANGED lastActivated

MouseLeave(w) ==
    /\ mounted[w]
    /\ \E t \in FreeTimers(Cur, w) \cup ({timer[w]} \ {0}) :
          /\ \A u \in FreeTimers(Cur, w) \cup ({timer[w]} \ {0}) : t <= u
          /\ Commit(handleMouseLeave(Cur, w, t))
    /\ lastEvent' = Event("mouseLeave", w, 0, NoId, << >>)
    /\ nTriggers' = Counted({}, {w})
    /\ UNCHANGED lastActivated

TimerFire(w, t) ==
    /\ t \in pending[w]
    /\ Commit(timerCallback(Cur, w, t))
    /\ lastEvent' = [Event("timer", w, 0, NoId, << >>) EXCEPT !.t = t]
    /\ nTriggers' = Counted({}, {w})
    /\ UNCHANGED lastActivated

\* A timeout of an instance that has been unmounted: its setDropdownOpen is
\* dropped by React.
StaleTimerFire(w, t) ==
    /\ t \in stale[w]
    /\ Commit([Cur EXCEPT !.stale[w] = @ \ {t}])
    /\ lastEvent' = [Event("staleTimer", w, 0, NoId, << >>) EXCEPT !.t = t]
    /\ UNCHANGED << nTriggers, lastActivated >>

Next ==
    \/ \E w \in Widgets, kids \in ChildLists : Mount(w, kids)
    \/ \E w \in Widgets : Unmount(w)
    \/ \E w \in Widgets : ClickTrigger(w)
    \/ \E w \in Widgets : ClickExecute(w)
    \/ \E w \in Widgets, i \in 1..2, part \in {"self", "nested"} : ClickItem(w, i, part)
    \/ ClickOutside
    \/ \E w \in Widgets, k \in KeyCodes : KeyUp(w, k)
    \/ \E w \in Widgets : MouseEnter(w)
    \/ \E w \in Widgets : MouseLeave(w)
    \/ \E w \in Widgets, t \in 1..MaxTimers : TimerFire(w, t)
    \/ \E w \in Widgets, t \in 1..MaxTimers : StaleTimerFire(w, t)

Spec == Init /\ [][Next]_vars

\* A timeout that stays scheduled runs its callback.
FairSpec ==
    Spec /\ \A w \in Widgets : WF_vars(\E t \in 1..MaxTimers : TimerFire(w, t))

\* The widget may also be mounted with a required prop left out.
NextConfig ==
    \/ Next
    \/ \E w \in Widgets, kids \in ChildLists,
          opt \in {"label", "labels", "execute", "id", "triggerVoice", "children"} :
            MountMisconfigured(w, kids, opt)

SpecConfig == Init /\ [][NextConfig]_vars

\* The children App gives both of its widgets (lines 19-20 and 31-32).
AppChildren == << Child("item1", FALSE), Child("item2", FALSE) >>

\* The page of App: one Immediate and one Selected, side by side.
InitApp == InitPage(Widgets)

\* App mounts its two widgets and never unmounts them.
NextApp ==
    \/ \E w \in Widgets : Mount(w, AppChildren)
    \/ \E w \in Widgets : ClickTrigger(w)
    \/ \E w \in Widgets : ClickExecute(w)
    \/ \E w \in Widgets, i \in 1..2 : ClickItem(w, i, "self")
    \/ ClickOutside
    \/ \E w \in Widgets, k \in KeyCodes : KeyUp(w, k)
    \/ \E w \in Widgets : MouseEnter(w)
    \/ \E w \in Widgets : MouseLeave(w)
    \/ \E w \in Widgets, t \in 1..MaxTimers : TimerFire(w, t)

SpecApp == InitApp /\ [][NextApp]_vars

\* ------------------------------------------------------------------- claims
\* The program's variables, without the history variables.
progVars == << page, mounted, children, dropdownOpen, selection, timer, pending,
              stale, rendered, listeners >>

\* C1: from a freshly mounted widget, after a sequence of N trigger() calls
\* and no other handler of the widget, isOpen is true iff N is odd.
C1_TriggerParity ==
    \A w \in Widgets :
        (mounted[w] /\ nTriggers[w] >= 0) =>
            (dropdownOpen[w] <=> (nTriggers[w] % 2 = 1))

\* Three trigger() calls and nothing else: the widget is open.
C1_Witness ==
    \E w \in Widgets : mounted[w] /\ nTriggers[w] = 3 /\ dropdownOpen[w]

\* C2: a click on the trigger of a mounted, closed widget leaves it open once
\* the click has been dispatched: no document listener closes it again.
C2_TriggerClickOpens ==
    (lastEvent.op = "trigger" /\ ~lastEvent.wasOpen) =>
        (mounted[lastEvent.w] /\ dropdownOpen[lastEvent.w])

\* A trigger click on a closed widget whose close listener is on document.
C2_Witness ==
    /\ lastEvent.op = "trigger"
    /\ ~lastEvent.wasOpen
    /\ lastEvent.w \in Range(listeners)
    /\ dropdownOpen[lastEvent.w]

\* C3: handleKey(Escape) leaves the widget closed; on a closed widget it
\* changes nothing of the program's state.
C3_EscapeCloses ==
    [][ (lastEvent'.op = "key" /\ lastEvent'.keyCode = 27) =>
            /\ ~dropdownOpen'[lastEvent'.w]
            /\ ~dropdownOpen[lastEvent'.w] => UNCHANGED progVars ]_vars

\* Escape was pressed on an open widget.
C3_Witness ==
    /\ lastEvent.op = "key"
    /\ lastEvent.keyCode = 27
    /\ lastEvent.wasOpen
    /\ ~dropdownOpen[lastEvent.w]

\* Escape was pressed on a closed widget with a timeout pending.
C3_WitnessClosed ==
    /\ lastEvent.op = "key"
    /\ lastEvent.keyCode = 27
    /\ ~lastEvent.wasOpen
    /\ timer[lastEvent.w] # 0

\* The ids of the menu items widget w was given.
ItemIdsOf(w) == { children[w][i].id : i \in 1..Len(children[w]) }

\* C4, as claimed: activating a menu item of an open Selected widget leaves
\* the menu open.
C4_ItemClickKeepsOpen ==
    (lastEvent.op = "item" /\ Variant(lastEvent.w) = "Selected") =>
        dropdownOpen[lastEvent.w] = lastEvent.wasOpen

\* C4, amended: the click on a menu item of an open Selected widget reaches
\* the widget's document listener, and the menu is closed once the click has
\* been dispatched.
C4_ItemClickCloses ==
    (lastEvent.op = "item" /\ Variant(lastEvent.w) = "Selected") =>
        (lastEvent.wasOpen /\ ~dropdownOpen[lastEvent.w])

\* An item of an open Selected widget was clicked.
C4_Witness ==
    /\ lastEvent.op = "item"
    /\ Variant(lastEvent.w) = "Selected"
    /\ lastEvent.wasOpen
    /\ mounted[lastEvent.w]

\* C5: activating item X of a Selected widget, by a click anywhere on X, sets
\* the selection to X's id, and the execute segment shows labels[X].
C5_ItemClickSelects ==
    (lastEvent.op = "item" /\ Variant(lastEvent.w) = "Selected") =>
        /\ selection[lastEvent.w] = lastActivated[lastEvent.w]
        /\ rendered[lastEvent.w].executeLabel = labels[lastActivated[lastEvent.w]]

\* C6: execute is called exactly when the execute segment is clicked, once,
\* with the id of the item activated last (the first item if none was), and
\* by no other event.
C6_ExecuteCalls ==
    IF lastEvent.op = "execute"
    THEN lastEvent.calls =
            << [fn |-> "execute", arg |-> lastActivated[lastEvent.w]] >>
    ELSE \A i \in 1..Len(lastEvent.calls) : lastEvent.calls[i].fn # "execute"

\* C7, as claimed: a click on the execute segment leaves isOpen as it was.
C7_ExecuteKeepsOpen ==
    (lastEvent.op = "execute") => dropdownOpen[lastEvent.w] = lastEvent.wasOpen

\* C7, amended: a click on the execute segment never opens the menu: a closed
\* menu stays closed, and an open one is closed by the widget's document
\* listener, which the click reaches.
C7_ExecuteClickCloses ==
    (lastEvent.op = "execute") => ~dropdownOpen[lastEvent.w]

\* The execute segment of an open widget was clicked.
C7_Witness ==
    /\ lastEvent.op = "execute"
    /\ lastEvent.wasOpen
    /\ mounted[lastEvent.w]

\* C8: a freshly mounted Selected widget has the id of its first child as
\* selection, and the execute segment shows that item's label.
C8_InitialSelection ==
    (lastEvent.op = "mount" /\ Variant(lastEvent.w) = "Selected") =>
        /\ selection[lastEvent.w] = children[lastEvent.w][1].id
        /\ rendered[lastEvent.w].selection = children[lastEvent.w][1].id
        /\ rendered[lastEvent.w].executeLabel = labels[children[lastEvent.w][1].id]

\* A Selected widget was mounted with item2 as its first child.
C8_Witness ==
    /\ lastEvent.op = "mount"
    /\ Variant(lastEvent.w) = "Selected"
    /\ children[lastEvent.w][1].id = "item2"
    /\ selection[lastEvent.w] = "item2"

\* C9: the selection of a mounted Selected widget is the id of one of its
\* menu items.
C9_SelectionIsAnItem ==
    \A w \in Widgets :
        (mounted[w] /\ Variant(w) = "Selected") => selection[w] \in ItemIdsOf(w)

\* C10: after handleMouseLeave on a mounted open widget the widget is
\* eventually closed, unless handleMouseEnter comes first (or the widget is
\* unmounted); when a timeout runs, the widget is closed, the timeout is spent
\* (it runs once) and no `timer` variable refers to it any more.
C10_HoverLeaveCloses ==
    /\ [][ lastEvent'.op = "timer" =>
              /\ ~dropdownOpen'[lastEvent'.w]
              /\ lastEvent'.t \in pending[lastEvent'.w]
              /\ lastEvent'.t \notin pending'[lastEvent'.w]
              /\ timer'[lastEvent'.w] # lastEvent'.t ]_vars
    /\ \A w \in Widgets :
          (lastEvent.op = "mouseLeave" /\ lastEvent.w = w /\ dropdownOpen[w])
            ~> \/ ~dropdownOpen[w]
               \/ ~mounted[w]
               \/ lastEvent.op = "mouseEnter" /\ lastEvent.w = w

\* The timeout of an open widget ran, in the render that started it.
C10_Witness ==
    /\ lastEvent.op = "timer"
    /\ lastEvent.wasOpen
    /\ mounted[lastEvent.w]
    /\ ~dropdownOpen[lastEvent.w]
    /\ pending[lastEvent.w] = {}

\* C11: handleMouseEnter cancels the timeout of an earlier handleMouseLeave,
\* whatever was rendered in between: once it has run, no timeout of the widget
\* is scheduled, so none closes the menu until the next handleMouseLeave.
C11_EnterCancels ==
    (lastEvent.op = "mouseEnter") => pending[lastEvent.w] = {}

\* C12: at most one timeout is scheduled per widget instance.
C12_OneTimer ==
    \A w \in Widgets : Cardinality(pending[w]) <= 1

\* How many of the document's click listeners belong to widget w.
ListenerCount(w) == Cardinality({ i \in 1..Len(listeners) : listeners[i] = w })

\* C13: a widget instance has exactly one click listener on document while it
\* is mounted and none once it is unmounted, over re-renders and over repeated
\* mounts and unmounts.
C13_OneListener ==
    \A w \in Widgets : ListenerCount(w) = IF mounted[w] THEN 1 ELSE 0

\* A widget mounted again after an unmount (a timeout of the earlier instance
\* is still scheduled) and re-rendered since.
C13_Witness ==
    \E w \in Widgets :
        /\ mounted[w]
        /\ stale[w] # {}
        /\ dropdownOpen[w]
        /\ ListenerCount(w) = 1

\* C14: once a widget instance is unmounted none of its handlers runs: its
\* click listener is off the document, and no timeout that was scheduled at
\* the unmount runs its callback against the destroyed instance.
C14_NoHandlerAfterUnmount ==
    /\ \A w \in Widgets : ~mounted[w] => ListenerCount(w) = 0
    /\ lastEvent.op # "staleTimer"

\* The step is an event on widget a, or a click outside the widgets that
\* closes a through a's document listener.
EventOf(a) ==
    \/ lastEvent'.w = a
    \/ lastEvent'.op = "outside" /\ dropdownOpen[a] /\ ~dropdownOpen'[a]

\* The events that are clicks the document's listeners receive.
DocumentClicks == {"outside", "item", "execute"}

\* C15, as claimed: with two mounted widgets, an event of one (its own outside
\* click included) changes neither isOpen nor the timer nor the selection of
\* the other.
C15_Isolated ==
    [][ \A a, b \in Widgets :
          (a # b /\ mounted[a] /\ mounted[b] /\ EventOf(a)) =>
              /\ dropdownOpen'[b] = dropdownOpen[b]
              /\ timer'[b] = timer[b]
              /\ pending'[b] = pending[b]
              /\ selection'[b] = selection[b] ]_vars

\* C15, amended: an event that only a's handlers handle (trigger click, key,
\* hover, timer) changes nothing of b; a click that reaches document runs the
\* close listener of every mounted instance, so it closes b as well (b is
\* re-rendered if it was open), and changes neither b's selection nor its
\* scheduled timeouts.
C15_IsolatedButDocumentClicks ==
    [][ \A a, b \in Widgets :
          (a # b /\ mounted[a] /\ mounted[b] /\ EventOf(a)) =>
              /\ pending'[b] = pending[b]
              /\ selection'[b] = selection[b]
              /\ IF lastEvent'.op \in DocumentClicks
                 THEN /\ ~dropdownOpen'[b]
                      /\ timer'[b] = IF dropdownOpen[b] THEN 0 ELSE timer[b]
                 ELSE /\ dropdownOpen'[b] = dropdownOpen[b]
                      /\ timer'[b] = timer[b] ]_vars

\* The trigger of one widget was clicked while the other was open, and both
\* are open now.
C15_Witness ==
    \E a, b \in Widgets :
        /\ a # b
        /\ lastEvent.op = "trigger" /\ lastEvent.w = a /\ ~lastEvent.wasOpen
        /\ dropdownOpen[a] /\ dropdownOpen[b]
        /\ timer[b] # 0

\* C16: in every rendered state the item list is rendered iff isOpen, the
\* trigger's aria-expanded equals isOpen, and a rendered list holds the
\* supplied items, one <li> each, in the supplied order.
C16_ListFollowsOpen ==
    \A w \in Widgets :
        mounted[w] =>
            /\ rendered[w].listShown = dropdownOpen[w]
            /\ rendered[w].ariaExpanded = dropdownOpen[w]
            /\ rendered[w].listShown =>
                  /\ Len(rendered[w].list) = Len(children[w])
                  /\ \A i \in 1..Len(children[w]) :
                        /\ rendered[w].list[i].tag = "li"
                        /\ rendered[w].list[i].child = children[w][i].id

\* A widget given item2 before item1 was opened, closed and opened again.
C16_Witness ==
    \E w \in Widgets :
        /\ mounted[w]
        /\ lastEvent.op = "trigger" /\ lastEvent.w = w
        /\ nTriggers[w] = 3
        /\ rendered[w].listShown
        /\ rendered[w].list[1].child = "item2"

\* C17: the glyph on the Immediate trigger is the "open" chevron while
\* isOpen is true and the "closed" chevron while it is false.
C17_GlyphFlips ==
    \A w \in Widgets :
        (mounted[w] /\ Variant(w) = "Immediate") =>
            rendered[w].glyph = IF dropdownOpen[w] THEN "chevronUp" ELSE "chevronDown"

\* C19: a freshly mounted widget is closed, and isOpen goes from false to
\* true only by a click on the widget's trigger.
C19_OnlyTriggerOpens ==
    /\ [](lastEvent.op = "mount" => ~dropdownOpen[lastEvent.w])
    /\ [][ \A w \in Widgets :
              (~dropdownOpen[w] /\ dropdownOpen'[w]) =>
                  (lastEvent'.op = "trigger" /\ lastEvent'.w = w) ]_vars

\* A timeout ran on a closed widget, which is still closed.
C19_Witness ==
    /\ lastEvent.op = "timer"
    /\ ~lastEvent.wasOpen
    /\ mounted[lastEvent.w]
    /\ ~dropdownOpen[lastEvent.w]

\* C20: the selection of a mounted widget changes only when one of its menu
\* items is activated; trigger, close, key, hover and timer events leave it.
C20_SelectionPersists ==
    [][ \A w \in Widgets :
          (mounted[w] /\ mounted'[w] /\ selection'[w] # selection[w]) =>
              (lastEvent'.op = "item" /\ lastEvent'.w = w) ]_vars

\* A Selected widget whose selection is not its first item was opened and
\* closed again with Escape.
C20_Witness ==
    /\ lastEvent.op = "key" /\ lastEvent.keyCode = 27 /\ lastEvent.wasOpen
    /\ Variant(lastEvent.w) = "Selected"
    /\ mounted[lastEvent.w]
    /\ selection[lastEvent.w] # FirstLabelId(children[lastEvent.w])
    /\ selection[lastEvent.w] \in ItemIdsOf(lastEvent.w)

\* C18: mounting a widget with a required option missing ends in a
\* descriptive configuration error: the widget is not rendered, and nothing
\* else fails.
C18_MissingOptionFailsFast ==
    (lastEvent.op = "mount" /\ missing[lastEvent.w] # {}) =>
        /\ ~mounted[lastEvent.w]
        /\ \E i \in 1..Len(lastEvent.calls) : lastEvent.calls[i].fn = "console.error"
        /\ \A i \in 1..Len(lastEvent.calls) : lastEvent.calls[i].fn # "throw"

\* C21: a scheduled timeout of a mounted widget leaves the schedule only by
\* the widget's handleMouseEnter or handleMouseLeave (cleared) or by running;
\* trigger clicks, closeDropdown and Escape leave it scheduled, and when it
\* runs the widget is closed, whatever opened or closed it in between.
C21_OnlyHoverCancels ==
    [][ \A w \in Widgets :
          /\ (mounted[w] /\ mounted'[w] /\ ~(pending[w] \subseteq pending'[w])) =>
                /\ lastEvent'.w = w
                /\ \/ lastEvent'.op \in {"mouseEnter", "mouseLeave"}
                   \/ /\ lastEvent'.op = "timer"
                      /\ pending[w] \ pending'[w] = {lastEvent'.t}
          /\ (lastEvent'.op = "timer" /\ lastEvent'.w = w) => ~dropdownOpen'[w] ]_vars

\* A trigger click opened a closed widget whose timeout, started before the
\* click, is still scheduled.
C21_Witness ==
    /\ lastEvent.op = "trigger"
    /\ ~lastEvent.wasOpen
    /\ dropdownOpen[lastEvent.w]
    /\ pending[lastEvent.w] # {}
    /\ timer[lastEvent.w] = 0

\* C22: a click on the trigger of widget a runs no click listener of the
\* document, neither a's own nor that of another mounted widget b: a is
\* toggled, and nothing of b changes (b is not even re-rendered), so an open b
\* stays open.
C22_TriggerClickReachesNoListener ==
    [][ \A a, b \in Widgets :
          (a # b /\ mounted[a] /\ mounted[b]
                 /\ lastEvent'.op = "trigger" /\ lastEvent'.w = a) =>
              /\ dropdownOpen'[a] = ~dropdownOpen[a]
              /\ dropdownOpen'[b] = dropdownOpen[b]
              /\ rendered'[b] = rendered[b]
              /\ timer'[b] = timer[b]
              /\ selection'[b] = selection[b] ]_vars

\* Both widgets are open at the same time: the second was opened by a click on
\* its trigger while the first was open and both close listeners were on
\* document.
C22_Witness ==
    /\ lastEvent.op = "trigger"
    /\ ~lastEvent.wasOpen
    /\ Range(listeners) = Widgets
    /\ \A w \in Widgets : mounted[w] /\ dropdownOpen[w] /\ rendered[w].listShown

\* C23: a click on a menu item of an Immediate widget runs the onClick the
\* caller gave the item (the rendered clone carries it, not a handler of the
\* widget), once, and then reaches the widget's document listener: the menu is
\* closed once the click has been dispatched.
C23_ImmediateItemClick ==
    [][ (lastEvent'.op = "item" /\ Variant(lastEvent'.w) = "Immediate") =>
            /\ rendered[lastEvent'.w].list # << >>
            /\ \A i \in 1..Len(rendered[lastEvent'.w].list) :
                  rendered[lastEvent'.w].list[i].onClick = "own"
            /\ lastEvent'.calls = << [fn |-> "onClick", arg |-> lastEvent'.target] >>
            /\ mounted'[lastEvent'.w]
            /\ ~dropdownOpen'[lastEvent'.w]
            /\ ~rendered'[lastEvent'.w].listShown ]_vars

\* An item of an open Immediate widget was clicked, and the menu is closed.
C23_Witness ==
    /\ lastEvent.op = "item"
    /\ Variant(lastEvent.w) = "Immediate"
    /\ lastEvent.wasOpen
    /\ Len(lastEvent.calls) = 1
    /\ ~dropdownOpen[lastEvent.w]

\* C24: a key other than Escape changes nothing of the program's state:
\* isOpen, the scheduled timeouts, the `timer` variable, the selection and the
\* rendered output stay as they were, on an open and on a closed widget.
C24_OtherKeysIgnored ==
    [][ (lastEvent'.op = "key" /\ lastEvent'.keyCode # 27) =>
            UNCHANGED << progVars, missing >> ]_vars

\* Enter was pressed on an open Selected widget with a timeout scheduled and a
\* selection other than its first item; it is still open.
C24_Witness ==
    /\ lastEvent.op = "key"
    /\ lastEvent.keyCode = 13
    /\ lastEvent.wasOpen
    /\ Variant(lastEvent.w) = "Selected"
    /\ dropdownOpen[lastEvent.w]
    /\ timer[lastEvent.w] # 0
    /\ selection[lastEvent.w] # FirstLabelId(children[lastEvent.w])

====
